---- MODULE Spec2Model ----
(***************************************************************************)
(* State-machine model of the HD wallet of src/src/storage.rs (Wallet,     *)
(* AccountMetadata, Account) driven by the start-up menus of               *)
(* src/src/main.rs.  One action is one step of the program between two     *)
(* blocking console reads.  Cryptographic primitives (keccak512, BIP-32    *)
(* derivation, address hashing) live in the crates crypto/utils, which are *)
(* not part of the source tree; they are modelled as collision-free        *)
(* symbolic functions.                                                     *)
(***************************************************************************)
EXTENDS Integers, Sequences, FiniteSets, TLC

VARIABLES
    pc,         \* position of the process: "off", "locked", "menu", "ended", "denied", "aborted"
    wallet,     \* <<>> when no Wallet value exists in memory, else <<the Wallet struct>>
    active,     \* position (0-based) of the account AccountMetadata::run is running
    file,       \* <<>> when userdata.txt does not exist, else <<the serialized record>>
    lastOp,     \* the input and outcome of the step just taken (observation only)
    memOrigin,  \* <<>> or <<[seed, password]>> used to generate the wallet in memory (observation only)
    fileOrigin, \* <<>> or <<[seed, password, pad]>> of the wallet in the file (observation only)
    unlockedBy, \* how the session got its deriving key: "none", "generated", "verified" (observation only)
    ledger      \* per address, the broadcasts the RPC node has accepted (recorded under SpecLedger only)

vars == <<pc, wallet, active, file, lastOp, memOrigin, fileOrigin, unlockedBy, ledger>>

-----------------------------------------------------------------------------
(* Bounds of the model *)

MaxAccounts == 2
MaxNonce == 1
MaxBroadcasts == 2

\* the seeds and the passwords a user may enter, as bit strings of Width bits
Seeds == {0, 3}
Passwords == {0, 1}

-----------------------------------------------------------------------------
(* Program constants *)

RINKEBY_CHAIN_ID == 4
GAS_LIMIT == 21000
ETH_DERIVE_KEY_PATH == "m/44'/60'/0'/0"
VERIFICATION_PATH == "m/44'/60'/0'"
ACCOUNT_PATH_PREFIX == <<"m", "/", "4", "4", "'", "/", "6", "0", "'", "/", "0", "'", "/", "0", "/">>

None == <<>>
Some(x) == <<x>>

-----------------------------------------------------------------------------
(* Primitives of the crates crypto and utils *)

\* number of bits of a seed, of a pad and of the password hash
Width == 2

RECURSIVE Pow2(_)
Pow2(n) == IF n = 0 THEN 1 ELSE 2 * Pow2(n - 1)

\* keccak512: a collision-free map of passwords to Width-bit strings
keccak512(password) == (2 * password + 1) % Pow2(Width)

RECURSIVE XorBits(_, _, _)
XorBits(a, b, n) ==
    IF n = 0 THEN 0
    ELSE (((a % 2) + (b % 2)) % 2) + 2 * XorBits(a \div 2, b \div 2, n - 1)

\* utils::xor(..).unwrap(): bit-wise exclusive or of two equally long strings
xor(a, b) == XorBits(a, b, Width)

\* utils::create_keys_from_path: the extended private and public key of a seed at a path
create_keys_from_path(seed, path) ==
    [xprv |-> [seed |-> seed, path |-> path, secret |-> TRUE],
     xpub |-> [seed |-> seed, path |-> path, secret |-> FALSE]]

\* utils::derive_child_secret_key: the non-hardened child secret of the deriving key
derive_child_secret_key(deriving_key, index) ==
    [parent |-> deriving_key, index |-> index]

\* crypto::generate_eth_address of the public key of child `index` of the deriving key
generate_eth_address(deriving_key, index) ==
    [seed |-> deriving_key.seed, path |-> deriving_key.path, index |-> index]

-----------------------------------------------------------------------------
(* Account paths: formatting and parsing of the index *)

Digits == <<"0", "1", "2", "3", "4", "5", "6", "7", "8", "9">>

\* usize::to_string
RECURSIVE to_string(_)
to_string(n) ==
    IF n < 10 THEN <<Digits[n + 1]>>
    ELSE to_string(n \div 10) \o <<Digits[(n % 10) + 1]>>

DigitValue(c) == CHOOSE d \in 0 .. 9 : Digits[d + 1] = c

IsDigit(c) == \E d \in 0 .. 9 : Digits[d + 1] = c

\* str::split("/").last(): the part after the last "/"
RECURSIVE last_segment(_)
last_segment(s) ==
    IF s = <<>> THEN <<>>
    ELSE IF s[Len(s)] = "/" THEN <<>>
    ELSE last_segment(SubSeq(s, 1, Len(s) - 1)) \o <<s[Len(s)]>>

\* str::parse::<u32>(): -1 stands for Err
RECURSIVE parse_u32(_)
parse_u32(s) ==
    IF s = <<>> THEN -1
    ELSE IF ~IsDigit(s[Len(s)]) THEN -1
    ELSE IF Len(s) = 1 THEN DigitValue(s[1])
    ELSE LET hi == parse_u32(SubSeq(s, 1, Len(s) - 1))
         IN  IF hi = -1 THEN -1 ELSE 10 * hi + DigitValue(s[Len(s)])

\* the index Account::run reads back from the account's path
path_index(path) == parse_u32(last_segment(path))

-----------------------------------------------------------------------------
(* Account, AccountMetadata and Wallet construction *)

\* Account::new
AccountNew(deriving_key, index) ==
    [nonce |-> 0,
     path |-> ACCOUNT_PATH_PREFIX \o to_string(index),
     address |-> generate_eth_address(deriving_key, index),
     prv_key |-> None]

\* AccountMetadata::new
AccountMetadataNew(deriving_key) ==
    [deriving_key |-> Some(deriving_key),
     accounts |-> <<AccountNew(deriving_key, 0)>>]

\* generate_wallet that stores the seed without masking it
generate_wallet_unmasked(seed, password) ==
    [pad |-> seed,
     verification_key |-> create_keys_from_path(seed, VERIFICATION_PATH).xpub,
     accounts_metadata |->
        AccountMetadataNew(create_keys_from_path(seed, ETH_DERIVE_KEY_PATH).xprv)]

\* generate_wallet that takes over the accounts of the record already on disk
generate_wallet_keeps_accounts(seed, password) ==
    [pad |-> xor(seed, keccak512(password)),
     verification_key |-> create_keys_from_path(seed, VERIFICATION_PATH).xpub,
     accounts_metadata |->
        [deriving_key |-> Some(create_keys_from_path(seed, ETH_DERIVE_KEY_PATH).xprv),
         accounts |->
            IF file = None
            THEN <<AccountNew(create_keys_from_path(seed, ETH_DERIVE_KEY_PATH).xprv, 0)>>
            ELSE file[1].accounts_metadata.accounts]]

\* Wallet::generate_wallet
generate_wallet(seed, password) ==
    [pad |-> xor(seed, keccak512(password)),
     verification_key |-> create_keys_from_path(seed, VERIFICATION_PATH).xpub,
     accounts_metadata |->
        AccountMetadataNew(create_keys_from_path(seed, ETH_DERIVE_KEY_PATH).xprv)]

\* serde_json::to_vec(self): deriving_key is #[serde(skip)], prv_key is a field of the record
Serialize(w) ==
    [pad |-> w.pad,
     verification_key |-> w.verification_key,
     accounts_metadata |-> [accounts |-> w.accounts_metadata.accounts]]

\* serde_json::from_str: the skipped deriving_key takes its default, None
Deserialize(r) ==
    [pad |-> r.pad,
     verification_key |-> r.verification_key,
     accounts_metadata |->
        [deriving_key |-> None, accounts |-> r.accounts_metadata.accounts]]

\* store that forgets the accounts' private keys
clear_deriving_key_only(w) ==
    [w EXCEPT !.accounts_metadata.deriving_key = None]

\* store that forgets the deriving key
clear_prv_keys_only(w) ==
    [w EXCEPT !.accounts_metadata.accounts =
        [i \in 1 .. Len(w.accounts_metadata.accounts) |->
            [w.accounts_metadata.accounts[i] EXCEPT !.prv_key = None]]]

\* Wallet::store, "clear all sensitive data"
clear_sensitive(w) ==
    [w EXCEPT !.accounts_metadata =
        [deriving_key |-> None,
         accounts |-> [i \in 1 .. Len(w.accounts_metadata.accounts) |->
                         [w.accounts_metadata.accounts[i] EXCEPT !.prv_key = None]]]]

\* verify_password that never compares the keys
verify_password_unchecked(w, password) ==
    LET seed == xor(keccak512(password), w.pad)
    IN  [ok |-> TRUE,
         wallet |-> [w EXCEPT !.accounts_metadata.deriving_key =
                       Some(create_keys_from_path(seed, ETH_DERIVE_KEY_PATH).xprv)]]

\* verify_password that sets the deriving key before it compares the keys
verify_password_key_first(w, password) ==
    LET seed == xor(keccak512(password), w.pad)
        xpub == create_keys_from_path(seed, VERIFICATION_PATH).xpub
    IN  [ok |-> (xpub = w.verification_key),
         wallet |-> [w EXCEPT !.accounts_metadata.deriving_key =
                       Some(create_keys_from_path(seed, ETH_DERIVE_KEY_PATH).xprv)]]

\* verify_password that installs the key of the verification path as deriving key
verify_password_wrong_path(w, password) ==
    LET seed == xor(keccak512(password), w.pad)
        xpub == create_keys_from_path(seed, VERIFICATION_PATH).xpub
    IN  IF xpub = w.verification_key
        THEN [ok |-> TRUE,
              wallet |-> [w EXCEPT !.accounts_metadata.deriving_key =
                            Some(create_keys_from_path(seed, VERIFICATION_PATH).xprv)]]
        ELSE [ok |-> FALSE, wallet |-> w]

\* Wallet::verify_password: the result and the wallet after the call
verify_password(w, password) ==
    LET password_hash == keccak512(password)
        seed == xor(password_hash, w.pad)
        xpub == create_keys_from_path(seed, VERIFICATION_PATH).xpub
    IN  IF xpub = w.verification_key
        THEN [ok |-> TRUE,
              wallet |-> [w EXCEPT !.accounts_metadata.deriving_key =
                            Some(create_keys_from_path(seed, ETH_DERIVE_KEY_PATH).xprv)]]
        ELSE [ok |-> FALSE, wallet |-> w]

\* create_account that derives at the index of the last account
create_account_reuse(am, index) ==
    [am EXCEPT !.accounts = Append(@, AccountNew(am.deriving_key[1], index - 1))]

\* AccountMetadata::create_account: push Account::new(k, index)
create_account(am, index) ==
    [am EXCEPT !.accounts = Append(@, AccountNew(am.deriving_key[1], index))]

\* AccountMetadata::get_account: accounts[index] panics when index is out of bounds
get_account_ok(am, index) == index >= 0 /\ index < Len(am.accounts)

\* materialization that always derives the child at index 0
materialize_key_index_zero(account, deriving_key) ==
    IF account.prv_key = None
    THEN [account EXCEPT !.prv_key = Some(derive_child_secret_key(deriving_key, 0))]
    ELSE account

\* Account::run, option 2: "if prv_key is non-existent, derive it and set it"
materialize_key(account, deriving_key) ==
    IF account.prv_key = None
    THEN [account EXCEPT !.prv_key =
            Some(derive_child_secret_key(deriving_key, path_index(account.path)))]
    ELSE account

\* RawTransaction::new(...).sign(prv_key, chain id)
sign_transaction(account) ==
    [nonce |-> account.nonce, gas |-> GAS_LIMIT, chain_id |-> RINKEBY_CHAIN_ID,
     key |-> account.prv_key[1]]

\* the broadcast succeeded: resp["result"] is a string other than "0x0"
broadcast_accepted(option, resp) ==
    option = 1 /\ resp \notin {"transport_error", "no_result", "0x0"}

\* send_transaction that counts every string result, "0x0" included
send_transaction_counts_0x0(account, recipient_ok, gas, option, resp) ==
    IF ~recipient_ok
    THEN [account |-> account, end |-> "returned", signed |-> None, sent |-> FALSE]
    ELSE IF gas # "ok"
    THEN [account |-> account, end |-> "panicked", signed |-> None, sent |-> FALSE]
    ELSE IF option # 1
    THEN [account |-> account, end |-> "returned",
          signed |-> Some(sign_transaction(account)), sent |-> FALSE]
    ELSE IF resp = "transport_error"
    THEN [account |-> account, end |-> "panicked",
          signed |-> Some(sign_transaction(account)), sent |-> TRUE]
    ELSE IF resp # "no_result"
    THEN [account |-> [account EXCEPT !.nonce = @ + 1], end |-> "returned",
          signed |-> Some(sign_transaction(account)), sent |-> TRUE]
    ELSE [account |-> account, end |-> "returned",
          signed |-> Some(sign_transaction(account)), sent |-> TRUE]

\* send_transaction that signs before it looks at the recipient
send_transaction_signs_first(account, recipient_ok, gas, option, resp) ==
    IF ~recipient_ok
    THEN [account |-> account, end |-> "returned",
          signed |-> Some(sign_transaction(account)), sent |-> FALSE]
    ELSE IF gas # "ok"
    THEN [account |-> account, end |-> "panicked", signed |-> None, sent |-> FALSE]
    ELSE IF option # 1
    THEN [account |-> account, end |-> "returned",
          signed |-> Some(sign_transaction(account)), sent |-> FALSE]
    ELSE IF resp = "transport_error"
    THEN [account |-> account, end |-> "panicked",
          signed |-> Some(sign_transaction(account)), sent |-> TRUE]
    ELSE IF resp \notin {"no_result", "0x0"}
    THEN [account |-> [account EXCEPT !.nonce = @ + 1], end |-> "returned",
          signed |-> Some(sign_transaction(account)), sent |-> TRUE]
    ELSE [account |-> account, end |-> "returned",
          signed |-> Some(sign_transaction(account)), sent |-> TRUE]

\* Account::send_transaction: the account after the call, how the call ended,
\* the transaction it signed and whether it sent it
send_transaction(account, recipient_ok, gas, option, resp) ==
    IF ~recipient_ok
    THEN [account |-> account, end |-> "returned", signed |-> None, sent |-> FALSE]
    ELSE IF gas # "ok"
    THEN [account |-> account, end |-> "panicked", signed |-> None, sent |-> FALSE]
    ELSE IF option # 1
    THEN [account |-> account, end |-> "returned",
          signed |-> Some(sign_transaction(account)), sent |-> FALSE]
    ELSE IF resp = "transport_error"
    THEN [account |-> account, end |-> "panicked",
          signed |-> Some(sign_transaction(account)), sent |-> TRUE]
    ELSE IF resp \notin {"no_result", "0x0"}
    THEN [account |-> [account EXCEPT !.nonce = @ + 1], end |-> "returned",
          signed |-> Some(sign_transaction(account)), sent |-> TRUE]
    ELSE [account |-> account, end |-> "returned",
          signed |-> Some(sign_transaction(account)), sent |-> TRUE]

-----------------------------------------------------------------------------
(* The state machine *)

W == wallet[1]
Accounts == wallet[1].accounts_metadata.accounts
ActiveAccount == Accounts[active + 1]

\* the record of a step: what was chosen, what the collaborators answered, what was done
Op(name) ==
    [op |-> name, password |-> -1, index |-> -1, option |-> -1,
     recipient_ok |-> FALSE, gas |-> "none", resp |-> "none",
     signed |-> None, sent |-> FALSE, ok |-> FALSE,
     materialized |-> FALSE, secrets |-> FALSE, replaced |-> FALSE]

BroadcastAnswers == {"transport_error", "no_result", "0x0", "0xhash"}

\* what the user and the RPC node answer during one send_transaction, up to the
\* point where the function stops reading: "none" and -1 are answers never asked for
SendInputs ==
    {[recipient_ok |-> FALSE, gas |-> "none", option |-> -1, resp |-> "none"],
     [recipient_ok |-> TRUE, gas |-> "error", option |-> -1, resp |-> "none"],
     [recipient_ok |-> TRUE, gas |-> "ok", option |-> 2, resp |-> "none"]}
    \cup {[recipient_ok |-> TRUE, gas |-> "ok", option |-> 1, resp |-> r] :
             r \in BroadcastAnswers}

\* the addresses a wallet of the model can hold
AllAddresses ==
    {generate_eth_address(create_keys_from_path(seed, ETH_DERIVE_KEY_PATH).xprv, index) :
        seed \in Seeds, index \in 0 .. MaxAccounts - 1}

Init ==
    /\ pc = "off"
    /\ wallet = None
    /\ active = 0
    /\ file = None
    /\ lastOp = Op("start")
    /\ memOrigin = None
    /\ fileOrigin = None
    /\ unlockedBy = "none"
    /\ ledger = [a \in AllAddresses |-> 0]

\* Wallet::run entered with a deriving key: AccountMetadata::run starts on default_account
StartSession(w, origin, how, op) ==
    /\ wallet' = Some(w)
    /\ memOrigin' = Some(origin)
    /\ unlockedBy' = how
    /\ active' = 0
    /\ pc' = "menu"
    /\ lastOp' = op
    /\ UNCHANGED <<file, fileOrigin, ledger>>

\* menu one, option 1: Wallet::new(password) with a fresh random seed, then Wallet::run
NewWallet(seed, password) ==
    /\ pc = "off"
    /\ file = None
    /\ LET w == generate_wallet(seed, password)
       IN  StartSession(w, [seed |-> seed, password |-> password, pad |-> w.pad],
                        "generated", [Op("create") EXCEPT !.password = password, !.ok = TRUE])

\* either menu, option 2: Wallet::from(password, mnemonic), then Wallet::run
ImportWallet(seed, password) ==
    /\ pc = "off"
    /\ LET w == generate_wallet(seed, password)
       IN  StartSession(w, [seed |-> seed, password |-> password, pad |-> w.pad],
                        "generated", [Op("import") EXCEPT !.password = password, !.ok = TRUE])

\* menu two, option 1: the record is read and the password is asked for
Load ==
    /\ pc = "off"
    /\ file # None
    /\ wallet' = Some(Deserialize(file[1]))
    /\ memOrigin' = fileOrigin
    /\ pc' = "locked"
    /\ lastOp' = Op("load")
    /\ UNCHANGED <<active, file, fileOrigin, unlockedBy, ledger>>

\* the password is entered: Wallet::verify_password, then Wallet::run or "Incorrect password"
VerifyPassword(password) ==
    /\ pc = "locked"
    /\ LET r == verify_password(W, password)
       IN  /\ wallet' = Some(r.wallet)
           /\ lastOp' = [Op("verify") EXCEPT !.password = password, !.ok = r.ok]
           /\ IF r.ok
              THEN /\ pc' = "menu"
                   /\ active' = 0
                   /\ unlockedBy' = "verified"
              ELSE /\ pc' = "denied"
                   /\ UNCHANGED <<active, unlockedBy>>
    /\ UNCHANGED <<file, memOrigin, fileOrigin, ledger>>

\* Account::run, option 1: query_balance unwraps the answer of the RPC call
ViewBalance(rpc_ok) ==
    /\ pc = "menu"
    /\ pc' = IF rpc_ok THEN "menu" ELSE "aborted"
    /\ lastOp' = [Op("balance") EXCEPT !.index = active, !.ok = rpc_ok]
    /\ UNCHANGED <<wallet, active, file, memOrigin, fileOrigin, unlockedBy, ledger>>

\* a send that writes the account back into the default account's slot
Send_on_default(recipient_ok, gas, option, resp) ==
    /\ pc = "menu"
    /\ broadcast_accepted(option, resp) /\ recipient_ok /\ gas = "ok"
          => ActiveAccount.nonce < MaxNonce
    /\ LET keyed == materialize_key(ActiveAccount, W.accounts_metadata.deriving_key[1])
           r == send_transaction(keyed, recipient_ok, gas, option, resp)
       IN  /\ wallet' = [wallet EXCEPT ![1].accounts_metadata.accounts[1] = r.account]
           /\ pc' = IF r.end = "returned" THEN "menu" ELSE "aborted"
           /\ lastOp' = [Op("send") EXCEPT !.index = active, !.option = option,
                            !.recipient_ok = recipient_ok, !.gas = gas, !.resp = resp,
                            !.signed = r.signed, !.sent = r.sent,
                            !.materialized = (ActiveAccount.prv_key = None),
                            !.ok = (r.end = "returned")]
    /\ UNCHANGED <<active, file, memOrigin, fileOrigin, unlockedBy>>

\* Account::run, option 2: the signing key is materialized, then send_transaction
Send(recipient_ok, gas, option, resp) ==
    /\ pc = "menu"
    /\ broadcast_accepted(option, resp) /\ recipient_ok /\ gas = "ok"
          => ActiveAccount.nonce < MaxNonce
    /\ IF ActiveAccount.prv_key = None /\ path_index(ActiveAccount.path) = -1
       THEN /\ pc' = "aborted"
            /\ lastOp' = [Op("send") EXCEPT !.index = active]
            /\ UNCHANGED wallet
       ELSE LET keyed == materialize_key(ActiveAccount, W.accounts_metadata.deriving_key[1])
                r == send_transaction(keyed, recipient_ok, gas, option, resp)
            IN  /\ wallet' = [wallet EXCEPT ![1].accounts_metadata.accounts[active + 1] = r.account]
                /\ pc' = IF r.end = "returned" THEN "menu" ELSE "aborted"
                /\ lastOp' = [Op("send") EXCEPT !.index = active, !.option = option,
                                 !.recipient_ok = recipient_ok, !.gas = gas, !.resp = resp,
                                 !.signed = r.signed, !.sent = r.sent,
                                 !.materialized = (ActiveAccount.prv_key = None),
                                 !.ok = (r.end = "returned")]
    /\ UNCHANGED <<active, file, memOrigin, fileOrigin, unlockedBy>>

\* a create-account step that keeps running the old account
CreateAccount_stays ==
    /\ pc = "menu"
    /\ Len(Accounts) < MaxAccounts
    /\ LET index == Len(Accounts)
       IN  /\ wallet' = [wallet EXCEPT ![1].accounts_metadata = create_account(@, index)]
           /\ active' = active
           /\ lastOp' = [Op("create_account") EXCEPT !.index = index, !.ok = TRUE]
    /\ UNCHANGED <<pc, file, memOrigin, fileOrigin, unlockedBy, ledger>>

\* Account::run returns 3: AccountMetadata::run creates the account at index accounts.len()
CreateAccount ==
    /\ pc = "menu"
    /\ Len(Accounts) < MaxAccounts
    /\ LET index == Len(Accounts)
       IN  /\ wallet' = [wallet EXCEPT ![1].accounts_metadata = create_account(@, index)]
           /\ active' = index
           /\ lastOp' = [Op("create_account") EXCEPT !.index = index, !.ok = TRUE]
    /\ UNCHANGED <<pc, file, memOrigin, fileOrigin, unlockedBy, ledger>>

\* a switch that looks the index up and then runs the default account
SwitchAccount_to_default(index) ==
    /\ pc = "menu"
    /\ LET found == get_account_ok(W.accounts_metadata, index)
       IN  /\ pc' = IF found THEN "menu" ELSE "aborted"
           /\ active' = IF found THEN 0 ELSE active
           /\ lastOp' = [Op("switch") EXCEPT !.index = index, !.ok = found]
    /\ UNCHANGED <<wallet, file, memOrigin, fileOrigin, unlockedBy, ledger>>

\* Account::run returns 4: the index is read, parsed (-1: not a number) and looked up
SwitchAccount(index) ==
    /\ pc = "menu"
    /\ LET found == get_account_ok(W.accounts_metadata, index)
       IN  /\ pc' = IF found THEN "menu" ELSE "aborted"
           /\ active' = IF found THEN index ELSE active
           /\ lastOp' = [Op("switch") EXCEPT !.index = index, !.ok = found]
    /\ UNCHANGED <<wallet, file, memOrigin, fileOrigin, unlockedBy, ledger>>

\* a quit that returns without calling store
Quit_without_store ==
    /\ pc = "menu"
    /\ pc' = "ended"
    /\ lastOp' = [Op("quit") EXCEPT !.ok = TRUE]
    /\ UNCHANGED <<wallet, file, fileOrigin, active, memOrigin, unlockedBy, ledger>>

\* Account::run returns 5: Wallet::run calls Wallet::store
Quit ==
    /\ pc = "menu"
    /\ wallet' = Some(clear_sensitive(W))
    /\ file' = Some(Serialize(clear_sensitive(W)))
    /\ fileOrigin' = memOrigin
    /\ pc' = "ended"
    /\ lastOp' = [Op("quit") EXCEPT !.ok = TRUE,
                     !.secrets = \E i \in 1 .. Len(Accounts) : Accounts[i].prv_key # None,
                     !.replaced = (file # None /\ fileOrigin # memOrigin)]
    /\ UNCHANGED <<active, memOrigin, unlockedBy, ledger>>

\* Account::run, any other number: "Invalid option"
InvalidOption ==
    /\ pc = "menu"
    /\ lastOp' = Op("invalid")
    /\ UNCHANGED <<pc, wallet, active, file, memOrigin, fileOrigin, unlockedBy, ledger>>

\* the process is gone: main returned or the panic unwound
Exit ==
    /\ pc \in {"ended", "denied", "aborted"}
    /\ pc' = "off"
    /\ wallet' = None
    /\ memOrigin' = None
    /\ unlockedBy' = "none"
    /\ active' = 0
    /\ lastOp' = Op("exit")
    /\ UNCHANGED <<file, fileOrigin, ledger>>

\* one bit of the stored pad is flipped while no process runs
CorruptPad(bit) ==
    /\ pc = "off"
    /\ file # None
    /\ file[1].pad = fileOrigin[1].pad
    /\ file' = [file EXCEPT ![1].pad = xor(@, Pow2(bit))]
    /\ lastOp' = [Op("corrupt") EXCEPT !.index = bit]
    /\ UNCHANGED <<pc, wallet, active, memOrigin, fileOrigin, unlockedBy, ledger>>

\* a send whose effect on the node is not recorded
SendUnrecorded(in) ==
    /\ Send(in.recipient_ok, in.gas, in.option, in.resp)
    /\ UNCHANGED ledger

\* a send whose accepted broadcast the node counts for the sender's address
SendRecorded(in) ==
    /\ Send(in.recipient_ok, in.gas, in.option, in.resp)
    /\ IF in.recipient_ok /\ in.gas = "ok" /\ broadcast_accepted(in.option, in.resp)
       THEN /\ ledger[ActiveAccount.address] < MaxBroadcasts
            /\ ledger' = [ledger EXCEPT ![ActiveAccount.address] = @ + 1]
       ELSE UNCHANGED ledger

\* Wallet::new draws a fresh mnemonic: the node has seen no transaction of its addresses
NewWalletFresh(seed, password) ==
    /\ \A a \in AllAddresses : a.seed = seed => ledger[a] = 0
    /\ NewWallet(seed, password)

Next ==
    \/ \E seed \in Seeds, password \in Passwords : NewWallet(seed, password)
    \/ \E seed \in Seeds, password \in Passwords : ImportWallet(seed, password)
    \/ Load
    \/ \E password \in Passwords : VerifyPassword(password)
    \/ \E rpc_ok \in BOOLEAN : ViewBalance(rpc_ok)
    \/ \E in \in SendInputs : SendUnrecorded(in)
    \/ CreateAccount
    \/ \E index \in -1 .. MaxAccounts : SwitchAccount(index)
    \/ Quit
    \/ InvalidOption
    \/ Exit
    \/ \E bit \in 0 .. Width - 1 : CorruptPad(bit)

Spec == Init /\ [][Next]_vars

\* one wallet at a time, created, stored and logged in to again, with the node's
\* count of accepted broadcasts recorded
NextLedger ==
    \/ \E seed \in Seeds, password \in Passwords : NewWalletFresh(seed, password)
    \/ Load
    \/ \E password \in Passwords : VerifyPassword(password)
    \/ \E rpc_ok \in BOOLEAN : ViewBalance(rpc_ok)
    \/ \E in \in SendInputs : SendRecorded(in)
    \/ CreateAccount
    \/ \E index \in -1 .. MaxAccounts : SwitchAccount(index)
    \/ Quit
    \/ InvalidOption
    \/ Exit

SpecLedger == Init /\ [][NextLedger]_vars

-----------------------------------------------------------------------------
(* Properties *)

DerivingKey == W.accounts_metadata.deriving_key
SendStep == pc = "menu" /\ lastOp'.op = "send"
\* the broadcast answered with a string result other than "0x0"
Accepted(op) == op.option = 1 /\ op.resp \notin {"none", "transport_error", "no_result", "0x0"}

\* C1: a send increments the active account's nonce by exactly 1 when the user
\* confirmed and the broadcast result is a string other than "0x0", and leaves it
\* unchanged in every other outcome; within a session no account's nonce decreases
C1_NonceContract ==
    [][/\ SendStep =>
            /\ active' = active
            /\ Len(Accounts') = Len(Accounts)
            /\ Accounts'[active + 1].nonce =
                 IF Accepted(lastOp')
                 THEN Accounts[active + 1].nonce + 1
                 ELSE Accounts[active + 1].nonce
       /\ (wallet # None /\ wallet' # None) =>
            /\ Len(Accounts') >= Len(Accounts)
            /\ \A i \in 1 .. Len(Accounts) : Accounts'[i].nonce >= Accounts[i].nonce
      ]_vars

\* C1 witness: a confirmed, accepted broadcast has raised the active account's nonce
C1_Witness ==
    /\ pc = "menu"
    /\ lastOp.op = "send"
    /\ Accepted(lastOp)
    /\ ActiveAccount.nonce = 1

\* C2: verify_password returns true, installs the deriving key and starts the wallet
\* actions exactly when pad XOR hash(password) is the seed the wallet was generated
\* from; the creation password with the unmodified pad is accepted, and a password
\* or pad recovering another seed is refused without starting the wallet actions
C2_LoginExactlyOnCorrectSeed ==
    lastOp.op = "verify" =>
        LET recovered == xor(W.pad, keccak512(lastOp.password))
            origin == memOrigin[1]
        IN  /\ lastOp.ok <=> recovered = origin.seed
            /\ lastOp.ok =>
                 /\ pc = "menu"
                 /\ DerivingKey = Some(create_keys_from_path(origin.seed, ETH_DERIVE_KEY_PATH).xprv)
            /\ ~lastOp.ok => pc = "denied" /\ DerivingKey = None
            /\ (lastOp.password = origin.password /\ W.pad = origin.pad) => lastOp.ok

\* C2 witness: the creation password and the unmodified pad have unlocked the wallet
C2_Witness ==
    /\ lastOp.op = "verify"
    /\ lastOp.ok
    /\ lastOp.password = memOrigin[1].password
    /\ W.pad = memOrigin[1].pad
    /\ pc = "menu"

\* C3: a verify_password that returns false changes neither the wallet in memory
\* (pad, verification key, accounts, deriving-key slot) nor the persisted record
C3_FailedVerifyChangesNothing ==
    [][(lastOp'.op = "verify" /\ ~lastOp'.ok) =>
          /\ wallet' = wallet
          /\ file' = file
          /\ active' = active]_vars

\* C3 witness: a password has been refused
C3_Witness ==
    /\ lastOp.op = "verify"
    /\ ~lastOp.ok
    /\ pc = "denied"

PathsContiguous(accounts) ==
    /\ \A i \in 1 .. Len(accounts) :
          /\ accounts[i].path = ACCOUNT_PATH_PREFIX \o to_string(i - 1)
          /\ path_index(accounts[i].path) = i - 1
    /\ \A i, j \in 1 .. Len(accounts) :
          i # j => path_index(accounts[i].path) # path_index(accounts[j].path)

\* C4: in memory and in the persisted record the account at position i has the path
\* "m/44'/60'/0'/0/i", for every i below the number of accounts, and no two
\* accounts share an index
C4_IndicesContiguous ==
    /\ wallet # None => PathsContiguous(Accounts)
    /\ file # None => PathsContiguous(file[1].accounts_metadata.accounts)

\* C4 witness: an account was created in a session that had reloaded the record
C4_Witness ==
    /\ pc = "menu"
    /\ unlockedBy = "verified"
    /\ lastOp.op = "create_account"
    /\ Len(Accounts) = Len(file[1].accounts_metadata.accounts) + 1
    /\ Len(Accounts) >= 2

\* C5: the persisted record never holds the deriving key or an account's private key
C5_SecretsNeverPersisted ==
    file # None =>
        /\ "deriving_key" \notin DOMAIN file[1].accounts_metadata
        /\ "deriving_key" \notin DOMAIN file[1]
        /\ \A i \in 1 .. Len(file[1].accounts_metadata.accounts) :
              file[1].accounts_metadata.accounts[i].prv_key = None

\* C5 witness: store has written a wallet that held a materialized signing key
C5_Witness ==
    /\ lastOp.op = "quit"
    /\ lastOp.secrets
    /\ file # None
    /\ pc = "ended"

\* C6 as claimed: the deriving-key slot is populated only after a password
\* verification has succeeded in the current session
C6_KeyOnlyAfterVerification ==
    (wallet # None /\ DerivingKey # None) => unlockedBy = "verified"

\* C6 as amended: the deriving-key slot is populated only in a session that
\* generated the wallet or verified its password, and then holds the key of the
\* wallet's seed at the account-deriving path; once store has run it is empty
C6_KeyOnlyInUnlockedSession ==
    wallet # None =>
        /\ DerivingKey # None =>
              /\ unlockedBy \in {"generated", "verified"}
              /\ pc \in {"menu", "aborted"}
              /\ DerivingKey =
                   Some(create_keys_from_path(memOrigin[1].seed, ETH_DERIVE_KEY_PATH).xprv)
        /\ pc \in {"locked", "denied", "ended"} => DerivingKey = None
        /\ lastOp.op = "quit" => DerivingKey = None

\* C6 witness: a freshly generated wallet holds its deriving key with no
\* password verification in the session
C6_Witness ==
    /\ pc = "menu"
    /\ unlockedBy = "generated"
    /\ DerivingKey # None

\* C7 as claimed: a switch to an index at or beyond the number of accounts is
\* reported and the session continues in the account menu
C7_OutOfBoundsSwitchContinues ==
    (lastOp.op = "switch" /\ wallet # None /\ lastOp.index >= Len(Accounts)) => pc = "menu"

\* C8 as claimed: after a send whose gas-price query or broadcast call failed the
\* session continues in the account menu
C8_RpcFailureContinues ==
    (lastOp.op = "send" /\ (lastOp.gas = "error" \/ lastOp.resp = "transport_error"))
        => pc = "menu"

\* C9 as claimed: a send with a malformed recipient changes nothing of the wallet
\* and signs and broadcasts nothing
C9_InvalidRecipientChangesNothing ==
    [][(SendStep /\ ~lastOp'.recipient_ok) =>
          /\ wallet' = wallet
          /\ lastOp'.signed = None
          /\ ~lastOp'.sent]_vars

\* C9 as amended: a send with a malformed recipient returns to the menu having
\* signed and broadcast nothing; every account's nonce, path and address, every
\* other account, the pad, the verification key, the deriving key and the
\* persisted record are unchanged; the active account's private key is unchanged
\* if it was present and otherwise is the child key at the index of its own path
C9_InvalidRecipientKeepsAllButKey ==
    [][(SendStep /\ ~lastOp'.recipient_ok) =>
          /\ pc' = "menu"
          /\ active' = active
          /\ file' = file
          /\ lastOp'.signed = None
          /\ ~lastOp'.sent
          /\ wallet'[1].pad = W.pad
          /\ wallet'[1].verification_key = W.verification_key
          /\ wallet'[1].accounts_metadata.deriving_key = DerivingKey
          /\ Len(Accounts') = Len(Accounts)
          /\ \A i \in 1 .. Len(Accounts) :
                /\ Accounts'[i].nonce = Accounts[i].nonce
                /\ Accounts'[i].path = Accounts[i].path
                /\ Accounts'[i].address = Accounts[i].address
                /\ i # active + 1 => Accounts'[i] = Accounts[i]
          /\ Accounts'[active + 1].prv_key =
                IF ActiveAccount.prv_key # None THEN ActiveAccount.prv_key
                ELSE Some(derive_child_secret_key(DerivingKey[1], active))]_vars

\* C9 witness: a send with a malformed recipient has materialized the signing key
\* of an account that had none
C9_Witness ==
    /\ pc = "menu"
    /\ lastOp.op = "send"
    /\ ~lastOp.recipient_ok
    /\ lastOp.materialized
    /\ ActiveAccount.prv_key # None

\* C10 as claimed: when a session is over, by quit or by an error raised from the
\* account menu, the deriving key and every account's private key are cleared
C10_SecretsClearedOnEveryExit ==
    (wallet # None /\ pc \in {"ended", "aborted", "denied"}) =>
        /\ DerivingKey = None
        /\ \A i \in 1 .. Len(Accounts) : Accounts[i].prv_key = None

FileAccounts == file[1].accounts_metadata.accounts
\* the persisted form of an account list: every field but the private key
Persisted(accounts) ==
    [i \in 1 .. Len(accounts) |->
        [nonce |-> accounts[i].nonce, path |-> accounts[i].path,
         address |-> accounts[i].address]]

C12_MaskRoundTrip ==
    (wallet # None /\ W.pad = memOrigin[1].pad) =>
        LET recovered == xor(keccak512(memOrigin[1].password), W.pad)
        IN  /\ recovered = memOrigin[1].seed
            /\ recovered \in 0 .. Pow2(Width) - 1
            /\ W.pad \in 0 .. Pow2(Width) - 1

\* C12 witness: a wallet generated from a non-zero seed, stored and read back,
\* still holds the pad of its generation
C12_Witness ==
    /\ pc = "locked"
    /\ memOrigin[1].seed # 0
    /\ W.pad = memOrigin[1].pad
    /\ W.pad # memOrigin[1].seed

\* the account Account::new builds for child `index` of the tree of `seed`
OriginAccount(seed, index) ==
    [nonce |-> 0,
     path |-> ACCOUNT_PATH_PREFIX \o to_string(index),
     address |-> [seed |-> seed, path |-> ETH_DERIVE_KEY_PATH, index |-> index]]

\* C13: a wallet made by Wallet::new or Wallet::from has a pad, a verification key
\* and a single account (index 0, nonce 0, no private key) that depend on the new
\* seed and password alone, whatever record is on disk; and every field of a
\* stored record belongs to the wallet that was stored, none to an earlier one
C13_GenerationReplaces ==
    /\ lastOp.op \in {"create", "import"} =>
          LET o == memOrigin[1]
          IN  /\ W.pad = xor(o.seed, keccak512(o.password))
              /\ W.verification_key = [seed |-> o.seed, path |-> VERIFICATION_PATH, secret |-> FALSE]
              /\ Persisted(Accounts) = <<OriginAccount(o.seed, 0)>>
              /\ Accounts[1].prv_key = None
    /\ file # None =>
          LET o == fileOrigin[1]
          IN  /\ file[1].verification_key.seed = o.seed
              /\ \A i \in 1 .. Len(FileAccounts) : FileAccounts[i].address.seed = o.seed
    /\ (lastOp.op = "quit" /\ unlockedBy = "generated") =>
          /\ fileOrigin = memOrigin
          /\ file[1].pad = xor(memOrigin[1].seed, keccak512(memOrigin[1].password))
          /\ Persisted(FileAccounts) = Persisted(Accounts)

\* C13 witness: an imported wallet has been stored over the record of another wallet
C13_Witness ==
    /\ pc = "ended"
    /\ lastOp.op = "quit"
    /\ lastOp.replaced
    /\ unlockedBy = "generated"
    /\ Len(FileAccounts) = 1

\* C14: a successful login keeps the stored wallet (same pad, verification key,
\* accounts and nonces as written at quit), and an account created after the reload
\* continues the tree of the original seed: the first one gets the index equal to
\* the number of persisted accounts, every one gets the address of its child index
\* under the account-deriving path, distinct from the address of every other account
C14_LoginContinuesKeyTree ==
    /\ (lastOp.op = "verify" /\ lastOp.ok) =>
          /\ unlockedBy = "verified"
          /\ W.pad = file[1].pad
          /\ W.verification_key = file[1].verification_key
          /\ Accounts = FileAccounts
    /\ (unlockedBy = "verified" /\ lastOp.op = "create_account") =>
          LET n == Len(Accounts)
          IN  /\ lastOp.index = n - 1
              /\ n = Len(FileAccounts) + 1 => lastOp.index = Len(FileAccounts)
              /\ Accounts[n].address = OriginAccount(memOrigin[1].seed, n - 1).address
              /\ \A i \in 1 .. n - 1 :
                    /\ Accounts[i].address = OriginAccount(memOrigin[1].seed, i - 1).address
                    /\ Accounts[i].address # Accounts[n].address

\* C14 witness: after a reload and a login, account 1 was created next to account 0
\* and has another address
C14_Witness ==
    /\ pc = "menu"
    /\ unlockedBy = "verified"
    /\ lastOp.op = "create_account"
    /\ lastOp.index = 1
    /\ Len(FileAccounts) = 1
    /\ Accounts[2].address # Accounts[1].address

\* C15: an account's private key is absent when the account is created or loaded;
\* it changes only in a send on that account, from absent to the child key at the
\* index of the account's own path, and in store, to absent; after a send the
\* active account has its key; no other step touches a key
C15_LazyCachedKey ==
    [][/\ (wallet = None /\ wallet' # None) =>
            \A i \in 1 .. Len(Accounts') : Accounts'[i].prv_key = None
       /\ (wallet # None /\ wallet' # None) =>
            /\ Len(Accounts') >= Len(Accounts)
            /\ \A i \in 1 .. Len(Accounts') :
                  IF i > Len(Accounts)
                  THEN Accounts'[i].prv_key = None
                  ELSE Accounts'[i].prv_key # Accounts[i].prv_key =>
                         \/ /\ SendStep
                            /\ i = active + 1
                            /\ Accounts[i].prv_key = None
                            /\ Accounts'[i].prv_key =
                                 Some(derive_child_secret_key(DerivingKey[1],
                                                              path_index(Accounts[i].path)))
                         \/ /\ lastOp'.op = "quit"
                            /\ Accounts'[i].prv_key = None
       /\ SendStep => Accounts'[active + 1].prv_key # None
      ]_vars

\* C15 witness: the first send on account 1 has materialized the child key of index 1
C15_Witness ==
    /\ lastOp.op = "send"
    /\ lastOp.materialized
    /\ active = 1
    /\ ActiveAccount.prv_key = Some(derive_child_secret_key(DerivingKey[1], 1))
    /\ Accounts[1].prv_key = None

\* C16: the create-account step appends one account, with index equal to the
\* previous count, nonce 0 and no private key, makes it the active account and
\* changes nothing else of the wallet or of the record
C16_CreateAppendsOne ==
    [][(pc = "menu" /\ lastOp'.op = "create_account") =>
          LET n == Len(Accounts)
          IN  /\ Len(Accounts') = n + 1
              /\ SubSeq(Accounts', 1, n) = Accounts
              /\ Accounts'[n + 1].nonce = 0
              /\ Accounts'[n + 1].prv_key = None
              /\ path_index(Accounts'[n + 1].path) = n
              /\ lastOp'.index = n
              /\ wallet'[1].pad = W.pad
              /\ wallet'[1].verification_key = W.verification_key
              /\ wallet'[1].accounts_metadata.deriving_key = DerivingKey
              /\ active' = n
              /\ pc' = "menu"
              /\ file' = file]_vars

\* C16 witness: account 1 was appended behind an account 0 that has a nonce and a key
C16_Witness ==
    /\ lastOp.op = "create_account"
    /\ active = 1
    /\ Len(Accounts) = 2
    /\ Accounts[1].nonce = 1
    /\ Accounts[1].prv_key # None

\* C17: a switch to an index in bounds makes that account the active one and
\* changes nothing of the wallet; balance and send act on the active account; a
\* session starts on account 0
C17_SwitchRepointsOnly ==
    [][/\ (pc = "menu" /\ lastOp'.op = "switch" /\ lastOp'.ok) =>
            /\ active' = lastOp'.index
            /\ wallet' = wallet
            /\ file' = file
            /\ pc' = "menu"
       /\ (pc = "menu" /\ lastOp'.op \in {"send", "balance"}) =>
            /\ lastOp'.index = active
            /\ active' = active
            /\ Len(Accounts') = Len(Accounts)
            /\ \A j \in 1 .. Len(Accounts) : j # active + 1 => Accounts'[j] = Accounts[j]
       /\ (pc # "menu" /\ pc' = "menu") => active' = 0
      ]_vars

\* C17 witness: with two accounts, a switch has made account 1 the active one
C17_Witness ==
    /\ pc = "menu"
    /\ lastOp.op = "switch"
    /\ lastOp.ok
    /\ lastOp.index = 1
    /\ active = 1
    /\ Accounts[2].nonce = 0

\* C18: every accepted broadcast of an account is signed with the number of
\* broadcasts the network accepted from that address before it, and in the menu
\* every account's nonce is the number of accepted broadcasts of its address
C18_NoncesMatchConfirmedBroadcasts ==
    (wallet # None /\ pc = "menu") =>
        /\ \A i \in 1 .. Len(Accounts) : Accounts[i].nonce = ledger[Accounts[i].address]
        /\ (lastOp.op = "send" /\ Accepted(lastOp)) =>
              lastOp.signed[1].nonce + 1 = ledger[ActiveAccount.address]

\* C19: a balance or send step of the active account, whatever its outcome, keeps
\* the number of accounts, every other account, the path and the address of the
\* active account, the seed masking, the deriving key, the active index and the
\* record; of the active account at most the nonce and the private key change
C19_AccountIsolation ==
    [][(pc = "menu" /\ lastOp'.op \in {"balance", "send"}) =>
          /\ wallet' # None
          /\ Len(Accounts') = Len(Accounts)
          /\ \A j \in 1 .. Len(Accounts) :
                /\ Accounts'[j].path = Accounts[j].path
                /\ Accounts'[j].address = Accounts[j].address
                /\ j # active + 1 => Accounts'[j] = Accounts[j]
          /\ lastOp'.op = "balance" => Accounts' = Accounts
          /\ [wallet'[1] EXCEPT !.accounts_metadata.accounts = Accounts] = W
          /\ active' = active
          /\ file' = file]_vars

\* C19 witness: an accepted send on account 1 raised its nonce and set its key next
\* to an account 0 that has neither
C19_Witness ==
    /\ lastOp.op = "send"
    /\ Accepted(lastOp)
    /\ active = 1
    /\ ActiveAccount.nonce = 1
    /\ ActiveAccount.prv_key # None
    /\ Accounts[1].nonce = 0
    /\ Accounts[1].prv_key = None

====
